---- MODULE Spec2Model ----
(***************************************************************************)
(* Model of the myhex crate (src/src/lib.rs): the const fn hex::<N>(s),    *)
(* its digit decoder ascii_char_to_num and the hex! macro.                 *)
(*                                                                         *)
(* A string is the sequence of its bytes (s.as_bytes()); Rust's 0-based    *)
(* index i is position i + 1 of the sequence.  u8 arithmetic keeps its     *)
(* width: + and - panic on overflow, << drops the bits shifted out.        *)
(***************************************************************************)
EXTENDS Integers, Sequences, FiniteSets

VARIABLES pc, caller, s, N, arr, idx, msb, lsb, err, ascii_char, num

vars == <<pc, caller, s, N, arr, idx, msb, lsb, err, ascii_char, num>>

(***************************************************************************)
(* Bounds of the model.                                                    *)
(***************************************************************************)
MaxLen == 4
MaxN == 3
MaxArr == 2

(***************************************************************************)
(* The byte literals of ascii_char_to_num and the width of u8.             *)
(***************************************************************************)
B_0 == 48
B_9 == 57
B_a == 97
B_f == 102
B_A == 65
B_F == 70
U8 == 256

(***************************************************************************)
(* Panic messages.  The first three are the crate's own; the last three    *)
(* are the panics the language raises for an index out of bounds and for   *)
(* u8 overflow in + and -.                                                 *)
(***************************************************************************)
NoErr == "none"
ErrOddLength == "Length needs to be even"
ErrLength == "Invalid length"
ErrInvalidChar == "Invalid character"
ErrIndex == "index out of bounds"
ErrAddOverflow == "attempt to add with overflow"
ErrSubOverflow == "attempt to subtract with overflow"

Ok(v) == [err |-> NoErr, val |-> v]
Panic(m) == [err |-> m, val |-> 0]

(***************************************************************************)
(* u8 arithmetic.                                                          *)
(***************************************************************************)
u8_sub(a, b) == IF a - b < 0 THEN Panic(ErrSubOverflow) ELSE Ok(a - b)
u8_add(a, b) == IF a + b >= U8 THEN Panic(ErrAddOverflow) ELSE Ok(a + b)
u8_shl4_by3(a) == (a * 8) % U8
u8_shl4(a) == (a * 16) % U8

\* a.err = NoErr ? u8_add(a.val, b) : a
then_add(a, b) == IF a.err = NoErr THEN u8_add(a.val, b) ELSE a

(***************************************************************************)
(* ascii_char_to_num, lib.rs:70-77.                                        *)
(***************************************************************************)
ascii_char_to_num_noplus(c) ==
    IF c \in B_0..B_9 THEN u8_sub(c, B_0)
    ELSE IF c \in B_a..B_f THEN then_add(u8_sub(c, B_a), 10)
    ELSE IF c \in B_A..B_F THEN u8_sub(c, B_A)
    ELSE Panic(ErrInvalidChar)

ascii_char_to_num_wide(c) ==
    IF c \in B_0..B_9 THEN u8_sub(c, B_0)
    ELSE IF c \in B_a..(B_f + 1) THEN then_add(u8_sub(c, B_a), 10)
    ELSE IF c \in B_A..(B_F + 1) THEN then_add(u8_sub(c, B_A), 10)
    ELSE Panic(ErrInvalidChar)

ascii_char_to_num_base(c) ==
    IF c \in (B_0 - 1)..B_9 THEN u8_sub(c, B_0)
    ELSE IF c \in B_a..B_f THEN then_add(u8_sub(c, B_a), 10)
    ELSE IF c \in B_A..B_F THEN then_add(u8_sub(c, B_A), 10)
    ELSE Panic(ErrInvalidChar)

ascii_char_to_num_sixteen(c) ==
    IF c \in B_0..B_9 THEN u8_sub(c, B_0)
    ELSE IF c \in B_a..B_f THEN then_add(u8_sub(c, B_a), 16)
    ELSE IF c \in B_A..B_F THEN then_add(u8_sub(c, B_A), 16)
    ELSE Panic(ErrInvalidChar)

ascii_char_to_num(c) ==
    IF c \in B_0..B_9 THEN u8_sub(c, B_0)
    ELSE IF c \in B_a..B_f THEN then_add(u8_sub(c, B_a), 10)
    ELSE IF c \in B_A..B_F THEN then_add(u8_sub(c, B_A), 10)
    ELSE Panic(ErrInvalidChar)

(***************************************************************************)
(* hex::<N>(s), lib.rs:50-65.                                              *)
(***************************************************************************)
\* bytes.len() % 2 == 0, lib.rs:53
len_is_even_missing(bytes) == TRUE
len_is_even(bytes) == Len(bytes) % 2 = 0

\* bytes.len() == N * 2, lib.rs:54
len_matches_atleast(bytes, n) == Len(bytes) >= n * 2
len_matches(bytes, n) == Len(bytes) = n * 2

\* idx < N, lib.rs:58
loop_cond_inclusive(i, n) == i <= n
loop_cond(i, n) == i < n

\* bytes[i], a checked index
index(bytes, i) == IF i < Len(bytes) THEN Ok(bytes[i + 1]) ELSE Panic(ErrIndex)

\* (msb<<4) + lsb, lib.rs:61
combine_swapped(m, l) == u8_add(u8_shl4(l), m)
combine(m, l) == u8_add(u8_shl4(m), l)

\* One iteration of the while loop, lib.rs:59-62: the locals after it, or
\* the panic that ended it.
loop_body(bytes, a, i) ==
    LET c1 == index(bytes, i * 2)
        m  == IF c1.err = NoErr THEN ascii_char_to_num(c1.val) ELSE c1
        c2 == IF m.err = NoErr THEN index(bytes, i * 2 + 1) ELSE m
        l  == IF c2.err = NoErr THEN ascii_char_to_num(c2.val) ELSE c2
        v  == IF l.err = NoErr THEN combine(m.val, l.val) ELSE l
        st == IF v.err # NoErr THEN v
              ELSE IF i < Len(a) THEN Ok(v.val) ELSE Panic(ErrIndex)
    IN  [err |-> st.err,
         arr |-> IF st.err = NoErr THEN [a EXCEPT ![i + 1] = st.val] ELSE a,
         idx |-> IF st.err = NoErr THEN i + 1 ELSE i,
         msb |-> IF m.err = NoErr THEN m.val ELSE 0,
         lsb |-> IF l.err = NoErr THEN l.val ELSE 0]

\* The while loop run to its end, lib.rs:58-64.
RECURSIVE hex_loop(_, _, _, _)
hex_loop(n, bytes, a, i) ==
    IF loop_cond(i, n)
    THEN LET r == loop_body(bytes, a, i)
         IN  IF r.err = NoErr THEN hex_loop(n, bytes, r.arr, r.idx)
             ELSE [err |-> r.err, val |-> <<>>]
    ELSE [err |-> NoErr, val |-> a]

\* hex::<N>(s) as a function of its arguments: the array, or the panic.
hex(n, str) ==
    IF ~len_is_even(str) THEN [err |-> ErrOddLength, val |-> <<>>]
    ELSE IF ~len_matches(str, n) THEN [err |-> ErrLength, val |-> <<>>]
    ELSE hex_loop(n, str, [i \in 1..n |-> 0], 0)

(***************************************************************************)
(* hex!, lib.rs:114-125: the array length both forms give to hex.          *)
(***************************************************************************)
macro_N_full(str) == Len(str)
macro_N(str) == Len(str) \div 2

(***************************************************************************)
(* The inputs the calls are made with.                                     *)
(***************************************************************************)
\* The digits 0 9 a f A F and two bytes that are no hex digit: X g
Alphabet == {48, 57, 97, 102, 65, 70, 88, 103}

Strings == UNION {[1..n -> Alphabet] : n \in 0..MaxLen}

\* The strings of the crate's doc tests and unit tests.
Examples ==
    { <<48, 49, 48, 97, 102, 102>>,     \* "010aff"
      <<48, 49, 48, 65, 70, 70>>,       \* "010AFF"
      <<48, 49, 48, 65, 70, 102>>,      \* "010AFf"
      <<49, 49, 49>>,                   \* "111"
      <<49, 49, 49, 49>>,               \* "1111"
      <<49, 49, 88, 49>>,               \* "11X1"
      <<49, 50, 51, 52, 53, 54>>,       \* "123456"
      <<49, 50, 51>>,                   \* "123"
      <<49, 50, 51, 81>>,               \* "123Q"
      <<97, 98, 99, 100>>,              \* "abcd"
      <<65, 66, 67, 68>>,               \* "ABCD"
      <<65, 98, 99, 68>> }              \* "AbcD"

\* The canonical encoder: two lowercase digits per byte, high nibble first.
hex_digit(n) == IF n < 10 THEN B_0 + n ELSE B_a + (n - 10)

encode(b) ==
    [i \in 1..(2 * Len(b)) |->
        IF i % 2 = 1 THEN hex_digit(b[(i + 1) \div 2] \div 16)
                     ELSE hex_digit(b[i \div 2] % 16)]

SampleBytes == {0, 1, 10, 15, 16, 171, 205, 255}

ByteArrays ==
    UNION {[1..n -> SampleBytes] : n \in 0..MaxArr} \cup {<<b>> : b \in 0..(U8 - 1)}

Encoded == {encode(b) : b \in ByteArrays}

HexInputs == Strings \cup Examples \cup Encoded

(***************************************************************************)
(* The state machine.                                                      *)
(***************************************************************************)
Init ==
    /\ pc = "idle"
    /\ caller = "none"
    /\ s = <<>>
    /\ N = 0
    /\ arr = <<>>
    /\ idx = 0
    /\ msb = 0
    /\ lsb = 0
    /\ err = NoErr
    /\ ascii_char = 0
    /\ num = 0

\* Entry of hex::<N>(s) with the arguments given.
enter_hex(who, n, str) ==
    /\ pc' = "assert_even"
    /\ caller' = who
    /\ s' = str
    /\ N' = n
    /\ UNCHANGED <<arr, idx, msb, lsb, err, ascii_char, num>>

\* A direct call hex::<n>(str).
hex_call ==
    /\ pc = "idle"
    /\ \E n \in 0..MaxN : \E str \in HexInputs : enter_hex("hex", n, str)

\* hex!(str), lib.rs:118-124
macro_expr ==
    /\ pc = "idle"
    /\ \E str \in HexInputs : enter_hex("macro_expr", macro_N(str), str)

\* hex!{ const NAME = str; }, lib.rs:115-117
macro_const ==
    /\ pc = "idle"
    /\ \E str \in HexInputs : enter_hex("macro_const", macro_N(str), str)

\* lib.rs:53
hex_assert_even ==
    /\ pc = "assert_even"
    /\ IF len_is_even(s)
       THEN pc' = "assert_len" /\ err' = err
       ELSE pc' = "panicked" /\ err' = ErrOddLength
    /\ UNCHANGED <<caller, s, N, arr, idx, msb, lsb, ascii_char, num>>

\* lib.rs:54, and on success lib.rs:56-57
hex_assert_len ==
    /\ pc = "assert_len"
    /\ IF len_matches(s, N)
       THEN /\ pc' = "loop"
            /\ arr' = [i \in 1..N |-> 0]
            /\ idx' = 0
            /\ err' = err
       ELSE /\ pc' = "panicked"
            /\ err' = ErrLength
            /\ UNCHANGED <<arr, idx>>
    /\ UNCHANGED <<caller, s, N, msb, lsb, ascii_char, num>>

\* lib.rs:58-63, one iteration
hex_loop_step ==
    /\ pc = "loop"
    /\ loop_cond(idx, N)
    /\ LET r == loop_body(s, arr, idx)
       IN  /\ arr' = r.arr
           /\ idx' = r.idx
           /\ msb' = r.msb
           /\ lsb' = r.lsb
           /\ err' = r.err
           /\ pc' = IF r.err = NoErr THEN "loop" ELSE "panicked"
    /\ UNCHANGED <<caller, s, N, ascii_char, num>>

\* lib.rs:58 (condition false) and lib.rs:64
hex_return ==
    /\ pc = "loop"
    /\ ~loop_cond(idx, N)
    /\ pc' = "done"
    /\ UNCHANGED <<caller, s, N, arr, idx, msb, lsb, err, ascii_char, num>>

\* A direct call of the digit decoder, as test_ascii_char_to_num makes it.
digit_call ==
    /\ pc = "idle"
    /\ \E c \in 0..(U8 - 1) :
        /\ caller' = "digit"
        /\ ascii_char' = c
        /\ LET r == ascii_char_to_num(c)
           IN  /\ num' = r.val
               /\ err' = r.err
               /\ pc' = IF r.err = NoErr THEN "digit_done" ELSE "panicked"
        /\ UNCHANGED <<s, N, arr, idx, msb, lsb>>

Next ==
    \/ hex_call
    \/ macro_expr
    \/ macro_const
    \/ hex_assert_even
    \/ hex_assert_len
    \/ hex_loop_step
    \/ hex_return
    \/ digit_call

Spec == Init /\ [][Next]_vars

(***************************************************************************)
(* Vocabulary of the properties.                                           *)
(***************************************************************************)
HexCall == caller \in {"hex", "macro_expr", "macro_const"}
MacroCall == caller \in {"macro_expr", "macro_const"}
Returned == pc = "done"
Failed == pc = "panicked"
Finished == Returned \/ Failed

\* The digit class 0-9, a-f, A-F and the value of a digit, as the
\* documentation states them.
is_hex_digit(c) == c \in (48..57) \cup (97..102) \cup (65..70)

digit(c) ==
    CASE c \in 48..57  -> c - 48
      [] c \in 97..102 -> c - 87
      [] c \in 65..70  -> c - 55

AllHex(str) == \A i \in DOMAIN str : is_hex_digit(str[i])
Odd(str) == Len(str) % 2 = 1

\* str with the case of the letters at the positions in S changed.
swap_case(c) ==
    IF c \in 97..102 THEN c - 32 ELSE IF c \in 65..70 THEN c + 32 ELSE c

flip_case(str, S) ==
    [i \in DOMAIN str |-> IF i \in S THEN swap_case(str[i]) ELSE str[i]]

\* Bitwise or of two w-bit numbers.
RECURSIVE bit_or(_, _, _)
bit_or(a, b, w) ==
    IF w = 0 THEN 0
    ELSE (IF a % 2 = 1 \/ b % 2 = 1 THEN 1 ELSE 0)
         + 2 * bit_or(a \div 2, b \div 2, w - 1)

EncodedPairs == {<<encode(b), b>> : b \in ByteArrays}

Str_010aff == <<48, 49, 48, 97, 102, 102>>
Str_1111 == <<49, 49, 49, 49>>
Str_111 == <<49, 49, 49>>
Str_11X1 == <<49, 49, 88, 49>>
Str_AbcD == <<65, 98, 99, 68>>
Str_123456 == <<49, 50, 51, 52, 53, 54>>

(***************************************************************************)
(* C1: for every N and every string s of 2*N hex digits, hex::<N>(s)       *)
(* never fails and returns N bytes, byte idx being                         *)
(* 16 * digit(s[2*idx]) + digit(s[2*idx+1]); "010aff" gives [1, 10, 255].  *)
(***************************************************************************)
Thm_C1 ==
    (HexCall /\ AllHex(s) /\ Len(s) = 2 * N) =>
        /\ ~Failed
        /\ Returned =>
            /\ Len(arr) = N
            /\ \A i \in 0..(N - 1) :
                   arr[i + 1] = 16 * digit(s[2 * i + 1]) + digit(s[2 * i + 2])
            /\ (s = Str_010aff => arr = <<1, 10, 255>>)

Wit_C1 ==
    caller = "hex" /\ Returned /\ s = Str_010aff /\ N = 3 /\ arr = <<1, 10, 255>>

(***************************************************************************)
(* C2 as stated: for s of hex digits, hex::<N>(s) succeeds iff             *)
(* len(s) = 2*N, and every other N fails with the length-mismatch error.   *)
(***************************************************************************)
Orig_C2 ==
    (HexCall /\ AllHex(s) /\ Finished) =>
        /\ Returned <=> Len(s) = 2 * N
        /\ Len(s) # 2 * N => (Failed /\ err = ErrLength)

(***************************************************************************)
(* C2 amended: for s of hex digits, hex::<N>(s) succeeds iff               *)
(* len(s) = 2*N; every other N fails, with the length-mismatch error when  *)
(* len(s) is even and with the odd-length error when len(s) is odd.        *)
(***************************************************************************)
Thm_C2 ==
    (HexCall /\ AllHex(s) /\ Finished) =>
        /\ Returned <=> Len(s) = 2 * N
        /\ Len(s) # 2 * N =>
            (Failed /\ err = IF Odd(s) THEN ErrOddLength ELSE ErrLength)

Wit_C2 ==
    caller = "hex" /\ Failed /\ s = Str_1111 /\ N = 3 /\ err = ErrLength

(***************************************************************************)
(* C3: for every s of odd length and every N, whatever the characters,     *)
(* hex::<N>(s) fails with the odd-length error at the first check: the     *)
(* call never reaches the N comparison or the loop, and decodes nothing.   *)
(***************************************************************************)
Thm_C3 ==
    (HexCall /\ Odd(s)) =>
        /\ pc \in {"assert_even", "panicked"}
        /\ Failed => err = ErrOddLength
        /\ arr = <<>> /\ idx = 0 /\ msb = 0 /\ lsb = 0

Wit_C3 ==
    caller = "hex" /\ Failed /\ s = Str_111 /\ N = 1 /\ err = ErrOddLength

(***************************************************************************)
(* C4 as stated: for every s with a byte outside the digit class and       *)
(* every N, hex::<N>(s) fails with the invalid-character error.            *)
(***************************************************************************)
Orig_C4 ==
    (HexCall /\ ~AllHex(s) /\ Finished) =>
        (Failed /\ err = ErrInvalidChar)

(***************************************************************************)
(* C4 amended: for every s with a byte outside the digit class and every   *)
(* N, hex::<N>(s) fails; the failure is the invalid-character error when   *)
(* len(s) = 2*N, the odd-length error when len(s) is odd, and the          *)
(* length-mismatch error otherwise.                                        *)
(***************************************************************************)
Thm_C4 ==
    (HexCall /\ ~AllHex(s) /\ Finished) =>
        /\ Failed
        /\ err = IF Odd(s) THEN ErrOddLength
                 ELSE IF Len(s) # 2 * N THEN ErrLength
                 ELSE ErrInvalidChar

Wit_C4 ==
    caller = "hex" /\ Failed /\ s = Str_11X1 /\ N = 2 /\ err = ErrInvalidChar

(***************************************************************************)
(* C5: over all 256 bytes c, ascii_char_to_num returns c - '0' for a       *)
(* decimal digit, c - 'a' + 10 for a-f, c - 'A' + 10 for A-F, and fails    *)
(* with the invalid-character error for every other byte; a returned       *)
(* value is in 0..15 and no subtraction underflows.                        *)
(***************************************************************************)
Thm_C5 ==
    (caller = "digit") =>
        /\ ascii_char \in 48..57 =>
               (pc = "digit_done" /\ num = ascii_char - 48 /\ num \in 0..9)
        /\ ascii_char \in 97..102 =>
               (pc = "digit_done" /\ num = ascii_char - 97 + 10 /\ num \in 10..15)
        /\ ascii_char \in 65..70 =>
               (pc = "digit_done" /\ num = ascii_char - 65 + 10 /\ num \in 10..15)
        /\ ~is_hex_digit(ascii_char) => (Failed /\ err = ErrInvalidChar)
        /\ pc = "digit_done" => (num \in 0..15 /\ err = NoErr)
        /\ err \notin {ErrSubOverflow, ErrAddOverflow}

Wit_C5 ==
    caller = "digit" /\ pc = "digit_done" /\ ascii_char = 70 /\ num = 15

(***************************************************************************)
(* C6: decoding is case-insensitive: when hex::<N>(s) returns, hex::<N>    *)
(* of every string obtained from s by changing the case of any subset of   *)
(* its letters returns the same array.                                     *)
(***************************************************************************)
Thm_C6 ==
    (HexCall /\ Returned) =>
        \A S \in SUBSET (DOMAIN s) :
            LET r == hex(N, flip_case(s, S))
            IN  r.err = NoErr /\ r.val = arr

Wit_C6 ==
    caller = "macro_expr" /\ Returned /\ s = Str_AbcD /\ arr = <<171, 205>>

(***************************************************************************)
(* C7 as stated: hex! calls hex with N = len(s) / 2; an even-length        *)
(* literal of hex digits yields the array of hex::<len(s)/2>(s), the       *)
(* length-mismatch failure is never reached, an odd-length literal fails   *)
(* with the odd-length error and a literal with an invalid character       *)
(* fails with the invalid-character error.                                 *)
(***************************************************************************)
Orig_C7 ==
    MacroCall =>
        /\ N = Len(s) \div 2
        /\ err # ErrLength
        /\ Finished =>
            /\ (AllHex(s) /\ ~Odd(s)) =>
                   (Returned /\ arr = hex(Len(s) \div 2, s).val
                             /\ hex(Len(s) \div 2, s).err = NoErr)
            /\ Odd(s) => (Failed /\ err = ErrOddLength)
            /\ ~AllHex(s) => (Failed /\ err = ErrInvalidChar)

(***************************************************************************)
(* C7 amended: as stated, except that it is an even-length literal with    *)
(* an invalid character that fails with the invalid-character error (an    *)
(* odd-length literal fails with the odd-length error whatever its         *)
(* characters).                                                            *)
(***************************************************************************)
Thm_C7 ==
    MacroCall =>
        /\ N = Len(s) \div 2
        /\ err # ErrLength
        /\ Finished =>
            /\ (AllHex(s) /\ ~Odd(s)) =>
                   (Returned /\ arr = hex(Len(s) \div 2, s).val
                             /\ hex(Len(s) \div 2, s).err = NoErr)
            /\ Odd(s) => (Failed /\ err = ErrOddLength)
            /\ (~AllHex(s) /\ ~Odd(s)) => (Failed /\ err = ErrInvalidChar)

Wit_C7 ==
    caller = "macro_const" /\ Returned /\ s = Str_123456 /\ arr = <<18, 52, 86>>

(***************************************************************************)
(* C8: round trip: when hex::<N>(s) returns b, hex::<N>(encode(b)) returns *)
(* b again; and for every byte array b, hex::<N>(encode(b)) returns b.     *)
(***************************************************************************)
Thm_C8 ==
    (HexCall /\ Returned) =>
        /\ LET r == hex(N, encode(arr)) IN r.err = NoErr /\ r.val = arr
        /\ \A p \in EncodedPairs : p[1] = s => arr = p[2]

Wit_C8 ==
    caller = "hex" /\ Returned /\ s = encode(<<171, 16>>) /\ arr = <<171, 16>>

(***************************************************************************)
(* C9: the empty string decodes without failure to the empty array:        *)
(* hex::<0>("") and hex!("") pass both checks, run no loop iteration and   *)
(* return an array of length 0.                                            *)
(***************************************************************************)
Thm_C9 ==
    (HexCall /\ s = <<>> /\ (MacroCall \/ N = 0)) =>
        /\ ~Failed /\ err = NoErr
        /\ idx = 0
        /\ Returned => arr = <<>>

Wit_C9 ==
    caller = "hex" /\ Returned /\ s = <<>> /\ N = 0 /\ arr = <<>> /\ idx = 0

(***************************************************************************)
(* C10: once both length assertions have passed, the only failure in the   *)
(* loop is the invalid-character error: the indexes 2*idx and 2*idx+1 are  *)
(* within s, (msb << 4) + lsb fits 8 bits and equals (msb << 4) | lsb,     *)
(* idx grows by 1 per iteration, and the loop ends after exactly N         *)
(* iterations, or earlier at the pair holding the first invalid character. *)
(***************************************************************************)
InLoop == HexCall /\ pc \in {"loop", "done", "panicked"}
                  /\ err \notin {ErrOddLength, ErrLength}

Inv_C10 ==
    InLoop =>
        /\ err \in {NoErr, ErrInvalidChar}
        /\ idx \in 0..N
        /\ (pc = "loop" /\ idx < N) => 2 * idx + 1 < Len(s)
        /\ \A i \in 1..(2 * idx) : is_hex_digit(s[i])
        /\ (pc # "panicked" /\ idx > 0) =>
              /\ msb \in 0..15 /\ lsb \in 0..15
              /\ msb * 16 + lsb < U8
              /\ arr[idx] = msb * 16 + lsb
              /\ arr[idx] = bit_or(u8_shl4(msb), lsb, 8)
        /\ Returned => (idx = N /\ err = NoErr)
        /\ Failed =>
              /\ idx < N
              /\ ~is_hex_digit(s[2 * idx + 1]) \/ ~is_hex_digit(s[2 * idx + 2])

Step_C10 ==
    (HexCall /\ pc = "loop") =>
        \/ pc' = "loop" /\ idx < N /\ idx' = idx + 1
        \/ pc' = "panicked" /\ idx < N /\ idx' = idx
        \/ pc' = "done" /\ idx = N /\ idx' = idx

Thm_C10 == []Inv_C10 /\ [][Step_C10]_vars

Wit_C10 ==
    caller = "hex" /\ Failed /\ err = ErrInvalidChar /\ idx = 1 /\ N = 2
                   /\ Len(s) = 4 /\ arr[1] = 249

====
